---- MODULE Spec2Model ----
(***************************************************************************)
(* Model of pallets/nomination-pools-staking/src/pallet/mod.rs: the        *)
(* dispatchable create_nomination_pool, the maintenance flag               *)
(* PalletDisabled, the SCALE encoding of NominationPoolsCall::Create, the  *)
(* Balance -> u128 conversion and the XCM message handed to                *)
(* pallet_xcm::send_xcm.                                                   *)
(*                                                                         *)
(* Numbers wider than the model checker's integers (balances, u128) are    *)
(* little-endian sequences of bytes, so that 2^128 and its neighbours are  *)
(* represented exactly.                                                    *)
(***************************************************************************)
EXTENDS Integers, Sequences, FiniteSets, TLC

\* ------------------------------------------------------------------ bounds
\* Number of requests (extrinsics) a behaviour dispatches.
MaxRequests == 2
\* Number of requests of a longer run, over fewer arguments.
MaxLongRequests == 3
\* Width in bytes of BalanceOf<T>; the pallet is generic in the balance type
\* and the conversion of mod.rs:146-148 can only fail for a type wider than u128.
LocalBytes == 17

\* ------------------------------------------------------- program constants
\* u128, the wire integer type of mod.rs:146.
WireBytes == 16
\* #[codec(index = 6)] of NominationPoolsCall::Create.
CreateIndex == 6
\* #[codec(index = 39)] of RelayChainCall::NominationPools.
NominationPoolsIndex == 39
\* fees: (Here, 1_000_000_000u128) of BuyExecution.
FeeAmount == 1000000000

\* ------------------------------------------------------------ byte numbers
\* The little-endian bytes of a natural n below 2^31, in len bytes.
ToBytes(n, len) ==
    [i \in 1 .. len |-> IF i > 4 THEN 0 ELSE (n \div (256 ^ (i - 1))) % 256]

\* 256^k in len bytes (len > k).
Pow256(k, len) == [i \in 1 .. len |-> IF i = k + 1 THEN 1 ELSE 0]

\* 256^k - 1 in len bytes (len >= k).
Ones(k, len) == [i \in 1 .. len |-> IF i <= k THEN 255 ELSE 0]

\* Sum of two byte numbers of the same length that do not carry (disjoint bytes).
Plus(a, b) == [i \in 1 .. Len(a) |-> a[i] + b[i]]

\* Number of significant bytes: the position of the highest non-zero byte.
SigBytes(bs) ==
    LET nonzero == {i \in 1 .. Len(bs) : bs[i] # 0}
    IN  IF nonzero = {} THEN 0
        ELSE CHOOSE i \in nonzero : \A j \in nonzero : j <= i

\* The first n bytes of bs, zero-extended when bs is shorter.
Resize(bs, n) == [i \in 1 .. n |-> IF i <= Len(bs) THEN bs[i] ELSE 0]

\* ---------------------------------------------------------- SCALE encoding
\* The value bs is below 2^(8k-2): it fits in k bytes after the shift by two bits.
CompactFits(bs, k) ==
    \/ SigBytes(bs) < k
    \/ SigBytes(bs) = k /\ bs[k] < 64

\* (bs << 2) | mode, in k little-endian bytes.
ShiftLeft2Or(bs, k, mode) ==
    LET b == Resize(bs, k)
    IN  [i \in 1 .. k |->
            (b[i] % 64) * 4 + (IF i = 1 THEN mode ELSE b[i - 1] \div 64)]

\* #[codec(compact)]: single-byte, two-byte, four-byte and big-integer mode.
CompactEncode(bs) ==
    IF CompactFits(bs, 1) THEN ShiftLeft2Or(bs, 1, 0)
    ELSE IF CompactFits(bs, 2) THEN ShiftLeft2Or(bs, 2, 1)
    ELSE IF CompactFits(bs, 4) THEN ShiftLeft2Or(bs, 4, 2)
    ELSE << 3 + (SigBytes(bs) - 4) * 4 >> \o SubSeq(bs, 1, SigBytes(bs))

\* T::Lookup::unlookup(staker): the lookup source naming the account itself.
unlookup(who) == [variant |-> "Id", id |-> who]

\* Encoding of a lookup source: the variant index 0 of Id, then the account
\* (an account id is abbreviated to one byte).
EncodeSource(src) == << 0, src.id >>

\* NominationPoolsCall::Create(value, root, nominator, bouncer).
Create(amount, root, nominator, bouncer) ==
    [amount |-> amount, root |-> root, nominator |-> nominator, bouncer |-> bouncer]

\* NominationPoolsCall::encode: the variant index, then the fields in order.
NominationPoolsCall_encode(call) ==
    << CreateIndex >> \o CompactEncode(call.amount) \o EncodeSource(call.root)
        \o EncodeSource(call.nominator) \o EncodeSource(call.bouncer)

\* RelayChainCall::NominationPools(call).encode: the outer variant index,
\* then the inner call.
RelayChainCall_encode(call) ==
    << NominationPoolsIndex >> \o NominationPoolsCall_encode(call)

\* Variant: an amount of zero is raised to a minimum of one.
create_nomination_pool_min(amount, who) ==
    Create(IF SigBytes(amount) = 0 THEN ToBytes(1, Len(amount)) ELSE amount,
           unlookup(who), unlookup(who), unlookup(who))

\* let create_nomination_pool = NominationPoolsCall::Create(value,
\* staker_multi_address, staker_multi_address, staker_multi_address).
create_nomination_pool(amount, who) ==
    Create(amount, unlookup(who), unlookup(who), unlookup(who))

\* The bytes create_nomination_pool encodes: create_nomination_pool.encode(),
\* the inner call on its own.
encoded_call(amount, who) ==
    NominationPoolsCall_encode(create_nomination_pool(amount, who))

\* ------------------------------------------------------ balance conversion
\* Variant: the conversion goes through u64 (values from 2^64 on are refused).
try_into_u64(bs) ==
    IF SigBytes(bs) <= 8
    THEN [ok |-> TRUE, val |-> Resize(bs, WireBytes)]
    ELSE [ok |-> FALSE, val |-> << >>]

\* Variant: the conversion is a cast (value as u128), which wraps modulo 2^128.
as_u128(bs) == [ok |-> TRUE, val |-> Resize(bs, WireBytes)]

\* value.try_into(): u128 of the same value, or an error when it does not fit.
try_into_u128(bs) ==
    IF SigBytes(bs) <= WireBytes
    THEN [ok |-> TRUE, val |-> Resize(bs, WireBytes)]
    ELSE [ok |-> FALSE, val |-> << >>]

\* ------------------------------------------------------------- XCM message
WithdrawAsset(amount) ==
    [instr |-> "WithdrawAsset", id |-> "Here", fun |-> amount,
     weight_limit |-> "-"]

BuyExecution(amount, limit) ==
    [instr |-> "BuyExecution", id |-> "Here", fun |-> amount,
     weight_limit |-> limit]

\* Variant: the fee is bought before the asset is withdrawn.
messages_buy_first(wire) ==
    << BuyExecution(ToBytes(FeeAmount, WireBytes), "Unlimited"),
       WithdrawAsset(wire) >>

\* Xcm(vec![WithdrawAsset((Here, value)), BuyExecution { fees, weight_limit }]).
messages(wire) ==
    << WithdrawAsset(wire),
       BuyExecution(ToBytes(FeeAmount, WireBytes), "Unlimited") >>

\* ------------------------------------------------------------------ guards
\* Variant: the test of the flag is inverted.
ensure_pallet_enabled_inverted(disabled) == IF disabled THEN "Ok" ELSE "Disabled"

\* Pallet::ensure_pallet_enabled, given the value of PalletDisabled.
ensure_pallet_enabled(disabled) == IF disabled THEN "Disabled" ELSE "Ok"

\* Variant: ensure_signed_or_root in place of ensure_signed.
ensure_signed_or_root(o) ==
    IF o.kind \in {"Signed", "Root"} THEN [ok |-> TRUE, who |-> o.who]
    ELSE [ok |-> FALSE, who |-> 0]

\* frame_system::ensure_signed: the account of a Signed origin, BadOrigin otherwise.
ensure_signed(o) ==
    IF o.kind = "Signed" THEN [ok |-> TRUE, who |-> o.who]
    ELSE [ok |-> FALSE, who |-> 0]

\* ------------------------------------------------------------------ inputs
AccountIds == {1, 2}
SmartContracts == {"c1", "c2"}

Signed(who) == [kind |-> "Signed", who |-> who]
Root == [kind |-> "Root", who |-> 0]
None == [kind |-> "None", who |-> 0]
Origins == {Signed(a) : a \in AccountIds} \cup {Root, None}

\* Balances of every encoding mode and on both sides of u128::MAX.
Balances ==
    { ToBytes(n, LocalBytes) : n \in {0, 1000, 65536, 1073741824} }
        \cup { Ones(WireBytes, LocalBytes),
               Pow256(WireBytes, LocalBytes),
               Plus(Pow256(LocalBytes - 1, LocalBytes), ToBytes(1000, LocalBytes)) }

\* The arguments of the longer runs: both callers, a rejected origin, an amount
\* that converts and one that does not.
LongOrigins == {Signed(a) : a \in AccountIds} \cup {Root}
LongContracts == {"c1"}
LongBalances == { ToBytes(1000, LocalBytes), Pow256(WireBytes, LocalBytes) }

\* ------------------------------------------------------------------- state
VARIABLES
    PalletDisabled, \* the storage value PalletDisabled
    events,         \* the events deposited so far, oldest first
    sent,           \* the calls of pallet_xcm::send_xcm so far, with the answer
    pc,             \* the position of the request being dispatched
    origin,         \* the arguments of that request
    contract_id,
    value,
    staker,         \* local: the account ensure_signed returned
    wire,           \* local: value as u128
    result,         \* what the request returned
    nRequests,      \* requests dispatched so far
    evBase,         \* Len(events) when the request was called
    sentBase,       \* Len(sent) when the request was called
    built           \* history: the calls built so far, with their encoding

vars == << PalletDisabled, events, sent, pc, origin, contract_id, value,
           staker, wire, result, nRequests, evBase, sentBase, built >>

Terminal == {"Emitted", "Rejected"}
NoWire == << >>

\* Event::DebugNominationPool(encoded_call.into()) and Event::BondAndStake(staker, contract_id).
DebugNominationPool(call) ==
    [name |-> "DebugNominationPool", call |-> call, who |-> 0, contract |-> "-"]

BondAndStake(who, contract) ==
    [name |-> "BondAndStake", call |-> << >>, who |-> who, contract |-> contract]

\* The events and the send_xcm calls of the current request.
RequestEvents == SubSeq(events, evBase + 1, Len(events))
RequestSent == SubSeq(sent, sentBase + 1, Len(sent))

\* PalletDisabled is a ValueQuery bool: false until written; nothing is
\* dispatched, deposited or sent yet.
Init ==
    /\ PalletDisabled = FALSE
    /\ events = << >>
    /\ sent = << >>
    /\ pc = "Idle"
    /\ origin = None
    /\ contract_id = "-"
    /\ value = ToBytes(0, LocalBytes)
    /\ staker = 0
    /\ wire = NoWire
    /\ result = "-"
    /\ nRequests = 0
    /\ evBase = 0
    /\ sentBase = 0
    /\ built = << >>

\* A write of the storage value PalletDisabled from outside the pallet's calls
\* (the pallet has none that writes it), between two requests.
SetPalletDisabled ==
    /\ pc = "Idle"
    /\ \E b \in BOOLEAN : PalletDisabled' = b
    /\ PalletDisabled' # PalletDisabled
    /\ UNCHANGED << events, sent, pc, origin, contract_id, value, staker, wire,
                    result, nRequests, evBase, sentBase, built >>

\* create_nomination_pool(origin, contract_id, value) is called, with arguments
\* from the given sets, as one of at most max requests.
CallFrom(os, cs, vs, max) ==
    /\ pc = "Idle"
    /\ nRequests < max
    /\ \E o \in os, c \in cs, v \in vs :
        /\ origin' = o
        /\ contract_id' = c
        /\ value' = v
    /\ pc' = "Authorizing"
    /\ staker' = 0
    /\ wire' = NoWire
    /\ result' = "-"
    /\ nRequests' = nRequests + 1
    /\ evBase' = Len(events)
    /\ sentBase' = Len(sent)
    /\ UNCHANGED << PalletDisabled, events, sent, built >>

Call == CallFrom(Origins, SmartContracts, Balances, MaxRequests)

\* Variant: the flag is read with take(), which resets the storage value.
Authorize_takes_flag ==
    /\ pc = "Authorizing"
    /\ PalletDisabled' = FALSE
    /\ IF ensure_pallet_enabled(PalletDisabled) # "Ok"
       THEN /\ result' = ensure_pallet_enabled(PalletDisabled)
            /\ pc' = "Rejected"
            /\ UNCHANGED staker
       ELSE IF ~ensure_signed(origin).ok
       THEN /\ result' = "BadOrigin"
            /\ pc' = "Rejected"
            /\ UNCHANGED staker
       ELSE /\ staker' = ensure_signed(origin).who
            /\ pc' = "Building"
            /\ UNCHANGED result
    /\ UNCHANGED << events, sent, origin, contract_id, value,
                    wire, nRequests, evBase, sentBase, built >>

\* Variant: the origin is checked before the flag.
Authorize_origin_first ==
    /\ pc = "Authorizing"
    /\ IF ~ensure_signed(origin).ok
       THEN /\ result' = "BadOrigin"
            /\ pc' = "Rejected"
            /\ UNCHANGED staker
       ELSE IF ensure_pallet_enabled(PalletDisabled) # "Ok"
       THEN /\ result' = ensure_pallet_enabled(PalletDisabled)
            /\ pc' = "Rejected"
            /\ UNCHANGED staker
       ELSE /\ staker' = ensure_signed(origin).who
            /\ pc' = "Building"
            /\ UNCHANGED result
    /\ UNCHANGED << PalletDisabled, events, sent, origin, contract_id, value,
                    wire, nRequests, evBase, sentBase, built >>

\* Variant: the guards pass straight to the conversion; the call is not built.
Authorize_skips_build ==
    /\ pc = "Authorizing"
    /\ IF ensure_pallet_enabled(PalletDisabled) # "Ok"
       THEN /\ result' = ensure_pallet_enabled(PalletDisabled)
            /\ pc' = "Rejected"
            /\ UNCHANGED staker
       ELSE IF ~ensure_signed(origin).ok
       THEN /\ result' = "BadOrigin"
            /\ pc' = "Rejected"
            /\ UNCHANGED staker
       ELSE /\ staker' = ensure_signed(origin).who
            /\ pc' = "Converting"
            /\ UNCHANGED result
    /\ UNCHANGED << PalletDisabled, events, sent, origin, contract_id, value,
                    wire, nRequests, evBase, sentBase, built >>

\* Self::ensure_pallet_enabled()?; let staker = ensure_signed(origin)?;
Authorize ==
    /\ pc = "Authorizing"
    /\ IF ensure_pallet_enabled(PalletDisabled) # "Ok"
       THEN /\ result' = ensure_pallet_enabled(PalletDisabled)
            /\ pc' = "Rejected"
            /\ UNCHANGED staker
       ELSE IF ~ensure_signed(origin).ok
       THEN /\ result' = "BadOrigin"
            /\ pc' = "Rejected"
            /\ UNCHANGED staker
       ELSE /\ staker' = ensure_signed(origin).who
            /\ pc' = "Building"
            /\ UNCHANGED result
    /\ UNCHANGED << PalletDisabled, events, sent, origin, contract_id, value,
                    wire, nRequests, evBase, sentBase, built >>

\* Variant: the call is built and encoded but the encoding is not deposited.
Build_no_deposit ==
    /\ pc = "Building"
    /\ pc' = "Converting"
    /\ UNCHANGED << PalletDisabled, events, sent, origin, contract_id, value,
                    staker, wire, result, nRequests, evBase, sentBase, built >>

\* Variant: an encoding that was deposited before is not deposited again.
Build_dedup ==
    /\ pc = "Building"
    /\ events' =
        IF \E i \in 1 .. Len(built) : built[i].bytes = encoded_call(value, staker)
        THEN events
        ELSE Append(events, DebugNominationPool(encoded_call(value, staker)))
    /\ built' = Append(built, [value |-> value, who |-> staker,
                               call |-> create_nomination_pool(value, staker),
                               bytes |-> encoded_call(value, staker)])
    /\ pc' = "Converting"
    /\ UNCHANGED << PalletDisabled, sent, origin, contract_id, value, staker,
                    wire, result, nRequests, evBase, sentBase >>

\* Variant: the encoding carries a sequence number (the count of requests so far).
Build_with_nonce ==
    /\ pc = "Building"
    /\ events' = Append(events,
            DebugNominationPool(encoded_call(value, staker) \o << nRequests >>))
    /\ built' = Append(built, [value |-> value, who |-> staker,
                               call |-> create_nomination_pool(value, staker),
                               bytes |-> encoded_call(value, staker) \o << nRequests >>])
    /\ pc' = "Converting"
    /\ UNCHANGED << PalletDisabled, sent, origin, contract_id, value, staker,
                    wire, result, nRequests, evBase, sentBase >>

\* The call is built and encoded, and the encoding deposited as DebugNominationPool.
Build ==
    /\ pc = "Building"
    /\ events' = Append(events, DebugNominationPool(encoded_call(value, staker)))
    /\ built' = Append(built, [value |-> value, who |-> staker,
                               call |-> create_nomination_pool(value, staker),
                               bytes |-> encoded_call(value, staker)])
    /\ pc' = "Converting"
    /\ UNCHANGED << PalletDisabled, sent, origin, contract_id, value, staker,
                    wire, result, nRequests, evBase, sentBase >>

\* let value: u128 = value.try_into().map_err(|_| FailedToConvertBalance)?;
Convert ==
    /\ pc = "Converting"
    /\ IF try_into_u128(value).ok
       THEN /\ wire' = try_into_u128(value).val
            /\ pc' = "Dispatching"
            /\ UNCHANGED result
       ELSE /\ result' = "FailedToConvertBalance"
            /\ pc' = "Rejected"
            /\ UNCHANGED wire
    /\ UNCHANGED << PalletDisabled, events, sent, origin, contract_id, value,
                    staker, nRequests, evBase, sentBase, built >>

\* Variant: BondAndStake is deposited whatever send_xcm answers.
Dispatch_bond_always ==
    /\ pc = "Dispatching"
    /\ \E accepted \in BOOLEAN :
        /\ sent' = Append(sent, [interior |-> "Here", dest |-> "Parent",
                                 message |-> messages(wire), accepted |-> accepted])
        /\ events' = Append(events, BondAndStake(staker, contract_id))
        /\ IF accepted
           THEN result' = "Ok" /\ pc' = "Emitted"
           ELSE result' = "FailedXcmTransaction" /\ pc' = "Rejected"
    /\ UNCHANGED << PalletDisabled, origin, contract_id, value, staker, wire,
                    nRequests, evBase, sentBase, built >>

\* Variant: the error of send_xcm is propagated as it is (send_xcm(..)?).
Dispatch_raw_error ==
    /\ pc = "Dispatching"
    /\ \E accepted \in BOOLEAN :
        /\ sent' = Append(sent, [interior |-> "Here", dest |-> "Parent",
                                 message |-> messages(wire), accepted |-> accepted])
        /\ IF accepted
           THEN /\ events' = Append(events, BondAndStake(staker, contract_id))
                /\ result' = "Ok"
                /\ pc' = "Emitted"
           ELSE /\ result' = "SendFailure"
                /\ pc' = "Rejected"
                /\ UNCHANGED events
    /\ UNCHANGED << PalletDisabled, origin, contract_id, value, staker, wire,
                    nRequests, evBase, sentBase, built >>

\* Variant: a refused send is tried once more.
Dispatch_retry_once ==
    /\ pc = "Dispatching"
    /\ \E accepted \in BOOLEAN :
        /\ sent' = Append(sent, [interior |-> "Here", dest |-> "Parent",
                                 message |-> messages(wire), accepted |-> accepted])
        /\ IF accepted
           THEN /\ events' = Append(events, BondAndStake(staker, contract_id))
                /\ result' = "Ok"
                /\ pc' = "Emitted"
           ELSE IF Len(sent) = sentBase
           THEN UNCHANGED << events, result, pc >>
           ELSE /\ result' = "FailedXcmTransaction"
                /\ pc' = "Rejected"
                /\ UNCHANGED events
    /\ UNCHANGED << PalletDisabled, origin, contract_id, value, staker, wire,
                    nRequests, evBase, sentBase, built >>

\* send_xcm(Here, MultiLocation::parent(), messages) and the match on its answer.
Dispatch ==
    /\ pc = "Dispatching"
    /\ \E accepted \in BOOLEAN :
        /\ sent' = Append(sent, [interior |-> "Here", dest |-> "Parent",
                                 message |-> messages(wire), accepted |-> accepted])
        /\ IF accepted
           THEN /\ events' = Append(events, BondAndStake(staker, contract_id))
                /\ result' = "Ok"
                /\ pc' = "Emitted"
           ELSE /\ result' = "FailedXcmTransaction"
                /\ pc' = "Rejected"
                /\ UNCHANGED events
    /\ UNCHANGED << PalletDisabled, origin, contract_id, value, staker, wire,
                    nRequests, evBase, sentBase, built >>

\* The dispatchable has returned result to its caller; the dispatch is over.
Return ==
    /\ pc \in Terminal
    /\ pc' = "Idle"
    /\ UNCHANGED << PalletDisabled, events, sent, origin, contract_id, value,
                    staker, wire, result, nRequests, evBase, sentBase, built >>

Next ==
    \/ SetPalletDisabled
    \/ Call
    \/ Authorize
    \/ Build
    \/ Convert
    \/ Dispatch
    \/ Return

Spec == Init /\ [][Next]_vars

\* Longer runs of requests over fewer arguments.
CallLong == CallFrom(LongOrigins, LongContracts, LongBalances, MaxLongRequests)

NextLong ==
    \/ SetPalletDisabled
    \/ CallLong
    \/ Authorize
    \/ Build
    \/ Convert
    \/ Dispatch
    \/ Return

SpecLong == Init /\ [][NextLong]_vars

\* The next statement of the request being dispatched.
RequestStep == Authorize \/ Build \/ Convert \/ Dispatch \/ Return

\* The dispatchable is straight-line code run to completion by its caller:
\* a request that can take its next step takes it.
FairLong == SpecLong /\ WF_vars(RequestStep)

\* ================================================================= claims
\* The value has a u128 of the same value.
Representable(v) == SigBytes(v) <= WireBytes
\* A u128 read back as a balance (the widening conversion).
from_u128(w) == Resize(w, LocalBytes)
Accepted == RequestSent # << >> /\ RequestSent[Len(RequestSent)].accepted
Refused == RequestSent # << >> /\ ~RequestSent[Len(RequestSent)].accepted
EventNames == [i \in 1 .. Len(RequestEvents) |-> RequestEvents[i].name]

\* C1: a request dispatched while PalletDisabled is set, whatever its origin and
\* amount, goes no further than the guard: it is rejected with Disabled, it has
\* deposited no event and send_xcm has not been called for it.
C1_DisabledRejects ==
    (pc # "Idle" /\ PalletDisabled) =>
        /\ pc \in {"Authorizing", "Rejected"}
        /\ pc = "Rejected" => result = "Disabled"
        /\ RequestEvents = << >>
        /\ RequestSent = << >>

C1_Witness ==
    /\ pc = "Rejected"
    /\ PalletDisabled
    /\ result = "Disabled"
    /\ origin.kind # "Signed"
    /\ ~Representable(value)
    /\ events # << >>

\* C2 (as claimed): a request of a signed origin, with the flag clear, whose amount
\* is not representable as u128 returns FailedToConvertBalance having deposited
\* no event.
C2_NoEventOnConvertFailure ==
    (pc = "Rejected" /\ ~PalletDisabled /\ origin.kind = "Signed"
        /\ ~Representable(value)) =>
        /\ result = "FailedToConvertBalance"
        /\ RequestEvents = << >>

\* C3: a request that reached send_xcm and was refused by it returns
\* FailedXcmTransaction; DebugNominationPool was deposited before the send and
\* is the request's only event: BondAndStake is not deposited.
C3_RefusedSend ==
    /\ pc = "Dispatching" => EventNames = << "DebugNominationPool" >>
    /\ Refused =>
        /\ pc \in {"Rejected", "Idle"}
        /\ result = "FailedXcmTransaction"
        /\ EventNames = << "DebugNominationPool" >>

C3_Witness ==
    /\ pc = "Rejected"
    /\ Refused
    /\ result = "FailedXcmTransaction"
    /\ Len(RequestEvents) = 1

\* C4: a request of a signed origin, with the flag clear and a representable
\* amount, that send_xcm accepted returns Ok and has deposited exactly
\* DebugNominationPool(encoded call) and then BondAndStake(caller, contract_id);
\* BondAndStake is never among a request's events unless send_xcm accepted.
C4_AcceptedSend ==
    /\ (pc # "Idle" /\ ~PalletDisabled /\ origin.kind = "Signed"
            /\ Representable(value) /\ Accepted) =>
        /\ pc = "Emitted"
        /\ result = "Ok"
        /\ RequestEvents =
            << DebugNominationPool(encoded_call(value, origin.who)),
               BondAndStake(origin.who, contract_id) >>
    /\ (\E i \in 1 .. Len(RequestEvents) : RequestEvents[i].name = "BondAndStake")
            => Accepted
    /\ (pc = "Emitted" \/ result = "Ok") => Accepted

C4_Witness ==
    /\ pc = "Emitted"
    /\ result = "Ok"
    /\ Accepted
    /\ value = ToBytes(1000, LocalBytes)
    /\ Len(RequestEvents) = 2
    /\ RequestEvents[2] = BondAndStake(2, "c2")

PalletErrors == {"Disabled", "FailedToConvertBalance", "FailedXcmTransaction"}

\* C5 (as claimed): every error create_nomination_pool returns is one of
\* Disabled, FailedToConvertBalance, FailedXcmTransaction.
C5_ErrorsClaimed ==
    (pc \in Terminal /\ result # "Ok") => result \in PalletErrors

\* C5 (amended): every error create_nomination_pool returns is one of Disabled,
\* FailedToConvertBalance, FailedXcmTransaction or BadOrigin, and BadOrigin is
\* returned only for an origin that is not signed, with the flag clear.
C5_ErrorsAmended ==
    (pc \in Terminal /\ result # "Ok") =>
        /\ result \in PalletErrors \cup {"BadOrigin"}
        /\ result = "BadOrigin" => (origin.kind # "Signed" /\ ~PalletDisabled)

C5_Witness ==
    /\ pc = "Rejected"
    /\ result = "BadOrigin"
    /\ origin = Root
    /\ nRequests = MaxRequests

\* C6 (as claimed): the bytes carried by the DebugNominationPool event of a
\* request are the nested encoding: index 39, then index 6, then the compact
\* amount and the three addresses.
C6_NestedEncoding ==
    \A i \in 1 .. Len(RequestEvents) :
        RequestEvents[i].name = "DebugNominationPool" =>
            RequestEvents[i].call =
                RelayChainCall_encode(
                    Create(value, unlookup(staker), unlookup(staker), unlookup(staker)))

\* C7: every message handed to send_xcm goes from Here to the parent and is
\* exactly WithdrawAsset(Here, amount) followed by BuyExecution(Here,
\* 1_000_000_000, Unlimited); the amount withdrawn by the current request's
\* message is the request's value.
C7_MessageShape ==
    /\ \A i \in 1 .. Len(sent) :
        /\ sent[i].interior = "Here"
        /\ sent[i].dest = "Parent"
        /\ Len(sent[i].message) = 2
        /\ sent[i].message[1].instr = "WithdrawAsset"
        /\ sent[i].message[1].id = "Here"
        /\ Len(sent[i].message[1].fun) = WireBytes
        /\ sent[i].message[2] =
            [instr |-> "BuyExecution", id |-> "Here",
             fun |-> ToBytes(FeeAmount, WireBytes), weight_limit |-> "Unlimited"]
    /\ \A i \in 1 .. Len(RequestSent) :
        /\ RequestSent[i].message[1].fun = wire
        /\ from_u128(wire) = value

C7_Witness ==
    /\ Len(sent) >= 2
    /\ sent[1].message[1].fun = Ones(WireBytes, WireBytes)
    /\ sent[2].message[1].fun = ToBytes(1000, WireBytes)
    /\ ~sent[2].accepted

\* C8: for a value representable as u128 the conversion does not fail and the
\* u128 it yields, which is the amount of the WithdrawAsset instruction,
\* converts back to the value.
C8_LosslessConversion ==
    Representable(value) =>
        /\ result # "FailedToConvertBalance"
        /\ pc \in {"Dispatching", "Emitted"} => wire # NoWire
        /\ wire # NoWire => from_u128(wire) = value
        /\ \A i \in 1 .. Len(RequestSent) :
            from_u128(RequestSent[i].message[1].fun) = value

C8_Witness ==
    /\ pc = "Emitted"
    /\ value = Ones(WireBytes, LocalBytes)
    /\ RequestSent # << >>
    /\ from_u128(RequestSent[1].message[1].fun) = value

\* C9: for a value above u128::MAX the request never gets a u128 amount, never
\* reaches the send and never calls send_xcm; once past the guards it is
\* rejected with FailedToConvertBalance.
C9_FailsClosed ==
    (~Representable(value)) =>
        /\ wire = NoWire
        /\ RequestSent = << >>
        /\ pc \notin {"Dispatching", "Emitted"}
        /\ result # "Ok"
        /\ (pc = "Rejected" /\ ~PalletDisabled /\ origin.kind = "Signed")
                => result = "FailedToConvertBalance"

C9_Witness ==
    /\ pc = "Rejected"
    /\ result = "FailedToConvertBalance"
    /\ value = Plus(Pow256(LocalBytes - 1, LocalBytes), ToBytes(1000, LocalBytes))
    /\ RequestSent = << >>

\* C10: a request whose origin is not signed, with the flag clear, is rejected
\* by ensure_signed with BadOrigin, and has deposited no event and called
\* send_xcm not at all.
C10_UnsignedRejected ==
    (pc # "Idle" /\ ~PalletDisabled /\ origin.kind # "Signed") =>
        /\ pc \in {"Authorizing", "Rejected"}
        /\ pc = "Rejected" => result = "BadOrigin"
        /\ staker = 0
        /\ RequestEvents = << >>
        /\ RequestSent = << >>

C10_Witness ==
    /\ pc = "Rejected"
    /\ ~PalletDisabled
    /\ origin = None
    /\ result = "BadOrigin"
    /\ events # << >>
    /\ sent # << >>

\* The bytes of the DebugNominationPool events deposited so far, oldest first.
DebugEvents == SelectSeq(events, LAMBDA e : e.name = "DebugNominationPool")

\* C11: the encodings deposited for two requests of the same amount and the
\* same caller are the same bytes, whatever was dispatched between them and
\* however each of them ended; the bytes deposited are those of the calls built.
C11_Deterministic ==
    /\ Len(DebugEvents) = Len(built)
    /\ \A i \in 1 .. Len(built) : DebugEvents[i].call = built[i].bytes
    /\ \A i, j \in 1 .. Len(built) :
        (built[i].value = built[j].value /\ built[i].who = built[j].who)
            => built[i].bytes = built[j].bytes

C11_Witness ==
    /\ Len(built) = 3
    /\ built[1].value = built[3].value
    /\ built[1].who = built[3].who
    /\ built[2].who # built[1].who
    /\ ~Representable(built[2].value)
    /\ Len(sent) = 2
    /\ sent[1].accepted
    /\ ~sent[2].accepted
    /\ DebugEvents[1].call = DebugEvents[3].call

\* The order of the phases of one request, and the return to Idle after it.
PhaseSteps ==
    { << "Idle", "Authorizing" >>,
      << "Authorizing", "Building" >>, << "Authorizing", "Rejected" >>,
      << "Building", "Converting" >>,
      << "Converting", "Dispatching" >>, << "Converting", "Rejected" >>,
      << "Dispatching", "Emitted" >>, << "Dispatching", "Rejected" >>,
      << "Emitted", "Idle" >>, << "Rejected", "Idle" >> }

\* A step moves the request along the order of the phases, or leaves it Idle;
\* after a terminal outcome the only step is the return, which changes nothing else.
PhaseStep ==
    /\ << pc, pc' >> \in PhaseSteps \/ (pc = "Idle" /\ pc' = "Idle")
    /\ pc \in Terminal =>
        /\ pc' = "Idle"
        /\ UNCHANGED << PalletDisabled, events, sent, origin, contract_id, value,
                        staker, wire, result, nRequests, evBase, sentBase, built >>

\* The outcome is Ok exactly when Emitted, an error exactly when Rejected and
\* absent before; send_xcm has been called only with the guards passed, the
\* call built and deposited, and the amount converted.
PhaseState ==
    /\ pc = "Emitted" => result = "Ok"
    /\ pc = "Rejected" => result \notin {"Ok", "-"}
    /\ pc \in {"Authorizing", "Building", "Converting", "Dispatching"} => result = "-"
    /\ RequestSent # << >> =>
        /\ ~PalletDisabled \/ pc = "Idle"
        /\ origin.kind = "Signed"
        /\ staker = origin.who
        /\ RequestEvents # << >>
        /\ RequestEvents[1].name = "DebugNominationPool"
        /\ wire # NoWire
        /\ pc \in Terminal \cup {"Idle"}

\* C12: every request goes through Authorizing, Building, Converting and
\* Dispatching in this order, never back, and every request called ends in one
\* terminal outcome, Emitted with Ok or Rejected with an error; send_xcm is
\* called only after the guards, the building and the conversion succeeded,
\* and nothing of the request happens after its outcome.
C12_Phases ==
    /\ [][PhaseStep]_vars
    /\ []PhaseState
    /\ (pc = "Authorizing") ~> (pc \in Terminal)

C12_Witness ==
    /\ pc = "Emitted"
    /\ nRequests = MaxLongRequests
    /\ Len(sent) = 1
    /\ Len(events) = 3

\* The current request is one for which send_xcm is called.
ReachesSend == ~PalletDisabled /\ origin.kind = "Signed" /\ Representable(value)

\* C13: a request calls send_xcm at most once: once when the flag is clear, the
\* origin signed and the amount converts, never otherwise; a refused send ends
\* the request, so the calls of send_xcm never outnumber the requests.
C13_AtMostOneSend ==
    /\ Len(RequestSent) <= 1
    /\ Len(sent) <= nRequests
    /\ pc \in Terminal => Len(RequestSent) = (IF ReachesSend THEN 1 ELSE 0)
    /\ Refused => pc \in {"Rejected", "Idle"}

C13_Witness ==
    /\ pc = "Rejected"
    /\ Refused
    /\ nRequests = 2
    /\ Len(sent) = 2
    /\ ~sent[1].accepted

\* C14: no step of create_nomination_pool, from its call to its return and on
\* any path, changes PalletDisabled.
C14_FlagNotWritten ==
    [][(pc # "Idle" \/ pc' # "Idle") => PalletDisabled' = PalletDisabled]_vars

C14_Witness ==
    /\ pc = "Idle"
    /\ nRequests = 2
    /\ PalletDisabled
    /\ result = "Disabled"
    /\ Len(events) = 2

\* What a request returns and deposits, from its arguments, the flag and the
\* answer of send_xcm alone.
ExpectedResult(o, v, disabled, accepted) ==
    IF disabled THEN "Disabled"
    ELSE IF o.kind # "Signed" THEN "BadOrigin"
    ELSE IF ~Representable(v) THEN "FailedToConvertBalance"
    ELSE IF accepted THEN "Ok"
    ELSE "FailedXcmTransaction"

ExpectedEvents(o, c, v, disabled, accepted) ==
    IF disabled \/ o.kind # "Signed" THEN << >>
    ELSE IF Representable(v) /\ accepted
    THEN << DebugNominationPool(
                NominationPoolsCall_encode(
                    Create(v, unlookup(o.who), unlookup(o.who), unlookup(o.who)))),
            BondAndStake(o.who, c) >>
    ELSE << DebugNominationPool(
                NominationPoolsCall_encode(
                    Create(v, unlookup(o.who), unlookup(o.who), unlookup(o.who)))) >>

\* C15: the result and the events of a request are those its origin, subject,
\* amount, the flag and the answer of send_xcm determine, whatever requests
\* were dispatched before it and however they ended.
C15_NoRetainedState ==
    pc \in Terminal =>
        /\ result = ExpectedResult(origin, value, PalletDisabled, Accepted)
        /\ RequestEvents =
            ExpectedEvents(origin, contract_id, value, PalletDisabled, Accepted)

C15_Witness ==
    /\ pc = "Emitted"
    /\ nRequests = 2
    /\ Len(built) = 2
    /\ built[1].value = value
    /\ built[1].who = staker
    /\ Len(sent) = 2
    /\ ~sent[1].accepted
    /\ result = "Ok"

C17_FlagBeforeOrigin ==
    (pc = "Rejected" /\ PalletDisabled /\ origin.kind # "Signed") =>
        /\ result = "Disabled"
        /\ result # "BadOrigin"

C17_Witness ==
    /\ pc = "Rejected"
    /\ PalletDisabled
    /\ origin = None
    /\ result = "Disabled"
    /\ nRequests = 1

====
